---- MODULE Spec2Model ----
(***************************************************************************)
(* Model of cartographer_grpc::mapping::TrajectoryBuilderStub              *)
(* (cartographer_grpc/mapping/trajectory_builder_stub.cc): the constructor *)
(* with its optional local-SLAM-result reader thread, the four             *)
(* AddSensorData overloads with their lazily opened client writers, the    *)
(* reader loop RunLocalSlamResultReader and the destructor.                *)
(*                                                                         *)
(* The gRPC transport is the environment: session creation, Write,         *)
(* WritesDone, Finish and Read return what the transport decides, so they  *)
(* are nondeterministic choices.  CHECK failures abort the process         *)
(* (mainPc = "fatal"); nothing runs after that.                            *)
(***************************************************************************)
EXTENDS Integers, Sequences, FiniteSets, TLC

\* ------------------------------------------------------------------ bounds
MaxCalls == 2          \* AddSensorData calls made over the adapter's life
MaxResults == 2        \* messages the remote emits on the inbound stream
NumCallers == 2        \* threads that may call AddSensorData

Callers == 1..NumCallers
TrajectoryIds == {0, 1}
\* Marks a trajectory id not yet set; the ids themselves are >= 0.
Unset == 0 - 1

\* The four sensor kinds, one writer member each.
Kinds == {"rangefinder", "imu", "odometry", "fixed_frame"}

VARIABLES
  mainPc,        \* position of the thread owning the adapter
  callback,      \* ctor argument local_slam_result_callback is non-null
  arg_trajectory_id, \* ctor argument trajectory_id
  serialized,    \* the caller serializes same-kind AddSensorData calls
  stub_,         \* "null" | "stub"
  trajectory_id_,
  writers,       \* kind -> the *_writer_ member and what was done on it
  call,          \* caller -> the AddSensorData call it is executing
  submitted,     \* kind -> samples handed to AddSensorData, in call order
  numCalls,
  reader,        \* local_slam_result_reader_ and the reader thread
  remote,        \* the remote end of the inbound stream
  callbacks,     \* invocations of local_slam_result_callback, in order
  joins,         \* number of thread->join() calls that returned
  dtorIdx        \* next handle the destructor looks at

vars == <<mainPc, callback, arg_trajectory_id, serialized, stub_,
          trajectory_id_, writers, call, submitted, numCalls, reader,
          remote, callbacks, joins, dtorIdx>>

\* ------------------------------------------------------------ conversions
\* cartographer::sensor::ToProto: the sample as a proto payload.
ToProto(sample) == [proto |-> sample]

\* cartographer::common::FromUniversal: ticks to a point in time.
FromUniversal(ticks) == [ticks |-> ticks]

\* cartographer::transform::ToRigid3: proto pose to a rigid transform.
ToRigid3(pose) == [rigid3d |-> pose]

\* cartographer::sensor::FromProto: proto range data to range data.
FromProto(range_data) == [range_data |-> range_data]

\* ------------------------------------------------------------------ state
IdleCall == [pc |-> "idle", kind |-> "none", sensor_id |-> <<>>,
             sample |-> <<>>]

NewWriter == [client_writer |-> "null", opens |-> 0, sent |-> <<>>,
              broken |-> FALSE,
              wd_calls |-> 0, wd_ok |-> FALSE,
              fin_calls |-> 0, fin_ok |-> FALSE]

NewReader == [client_reader |-> "null", opens |-> 0, request |-> Unset,
              thread |-> "absent", pc |-> "none",
              reads |-> <<>>, ended |-> FALSE,
              fin_calls |-> 0, fin_ok |-> FALSE]

Init ==
  /\ mainPc = "init"
  /\ callback \in BOOLEAN
  /\ arg_trajectory_id \in TrajectoryIds
  /\ serialized = TRUE
  /\ stub_ = "null"
  /\ trajectory_id_ = Unset
  /\ writers = [k \in Kinds |-> NewWriter]
  /\ call = [c \in Callers |-> IdleCall]
  /\ submitted = [k \in Kinds |-> <<>>]
  /\ numCalls = 0
  /\ reader = NewReader
  /\ remote = [state |-> "open", pending |-> <<>>, emitted |-> 0]
  /\ callbacks = <<>>
  /\ joins = 0
  /\ dtorIdx = 1

\* ------------------------------------------------------------ constructor
\* The constructor's `if (local_slam_result_callback)` branch: open the
\* inbound session with a request carrying the trajectory id, start the
\* reader thread on it.
StartReader(r, trajectory_id) ==
  [r EXCEPT !.client_reader = "open", !.opens = @ + 1,
            !.request = trajectory_id,
            !.thread = "running", !.pc = "read"]

\* Mutant of CtorReader: the reader is started whether or not a callback
\* was given.
CtorReader_Always(r, has_callback, trajectory_id) ==
  StartReader(r, trajectory_id)

\* Mutant of CtorReader: the constructor leaves the subscription for later.
CtorReader_Never(r, has_callback, trajectory_id) == r

\* `if (local_slam_result_callback) { ... }`: the reader member after the
\* constructor body.
CtorReader(r, has_callback, trajectory_id) ==
  IF has_callback THEN StartReader(r, trajectory_id) ELSE r

\* TrajectoryBuilderStub::TrajectoryBuilderStub
Construct ==
  /\ mainPc = "init"
  /\ trajectory_id_' = arg_trajectory_id
  /\ \E stub_ok \in BOOLEAN :
       /\ stub_' = IF stub_ok THEN "stub" ELSE "null"
       /\ IF ~stub_ok
            THEN /\ mainPc' = "fatal"      \* CHECK(stub_)
                 /\ reader' = reader
            ELSE /\ mainPc' = "ready"
                 /\ reader' = CtorReader(reader, callback, arg_trajectory_id)
  /\ UNCHANGED <<callback, arg_trajectory_id, serialized, writers, call,
                 submitted, numCalls, remote, callbacks, joins, dtorIdx>>

\* The constructor when stub_->ReceiveLocalSlamResults returns no reader:
\* nothing tests client_reader (lines 34-36), so the thread is started on
\* the null client_reader_ptr.
ConstructMissingReader ==
  /\ mainPc = "init"
  /\ callback
  /\ trajectory_id_' = arg_trajectory_id
  /\ stub_' = "stub"
  /\ mainPc' = "ready"
  /\ reader' = [reader EXCEPT !.client_reader = "null", !.opens = @ + 1,
                              !.request = arg_trajectory_id,
                              !.thread = "running", !.pc = "read_null"]
  /\ UNCHANGED <<callback, arg_trajectory_id, serialized, writers, call,
                 submitted, numCalls, remote, callbacks, joins, dtorIdx>>

\* ---------------------------------------------------------- AddSensorData
\* Mutant of CreateSensorMetadata: set_trajectory_id is forgotten and the
\* proto default stays.
CreateSensorMetadata_NoTrajectory(sensor_id) ==
  [sensor_id |-> sensor_id, trajectory_id |-> 0]

\* TrajectoryBuilderStub::CreateSensorMetadata
CreateSensorMetadata(sensor_id) ==
  [sensor_id |-> sensor_id, trajectory_id |-> trajectory_id_]

\* Mutant of BuildRequest: the request object of the first call is reused,
\* only its metadata is refreshed.
BuildRequest_StaleData(sensor_id, sample) ==
  [sensor_metadata |-> CreateSensorMetadata(sensor_id),
   data |-> ToProto(<<"sample", 1>>)]

\* The request an overload builds: sensor metadata plus the encoded sample.
BuildRequest(sensor_id, sample) ==
  [sensor_metadata |-> CreateSensorMetadata(sensor_id),
   data |-> ToProto(sample)]

\* Mutant of NeedsOpen: the test is lost and every call opens a session.
NeedsOpen_Always(w) == TRUE

\* The test `if (!X_writer_.client_writer)` at the head of each overload.
NeedsOpen(w) == w.client_writer = "null"

\* Other callers are not inside a call of kind k.
NoCallOfKind(c, k) ==
  \A d \in Callers \ {c} : call[d].pc # "idle" => call[d].kind # k

\* AddSensorData is entered and the writer pointer is tested.
\* Caller threads are interchangeable: a call is run by the first free one.
FirstFree(c) ==
  /\ call[c].pc = "idle"
  /\ \A d \in Callers : d < c => call[d].pc # "idle"

\* The adapter never looks into a sensor id or a sample, so the caller's
\* n-th call passes the n-th sensor id and the n-th sample, all distinct.
NextSensorId == <<"sensor", numCalls + 1>>

NextSample == <<"sample", numCalls + 1>>

CallBegin(c, k, sensor_id, sample) ==
  /\ mainPc = "ready"
  /\ FirstFree(c)
  /\ numCalls < MaxCalls
  /\ serialized => NoCallOfKind(c, k)
  /\ call' = [call EXCEPT ![c] =
                [pc |-> IF NeedsOpen(writers[k]) THEN "open" ELSE "write",
                 kind |-> k, sensor_id |-> sensor_id, sample |-> sample]]
  /\ submitted' = [submitted EXCEPT ![k] =
                     Append(@, [sensor_id |-> sensor_id, sample |-> sample])]
  /\ numCalls' = numCalls + 1
  /\ UNCHANGED <<mainPc, callback, arg_trajectory_id, serialized, stub_,
                 trajectory_id_, writers, reader, remote, callbacks, joins,
                 dtorIdx>>

\* Mutant of CallOpen: a session found in the handle is finalized before
\* it is replaced.
CallOpen_FinalizesOld(c) ==
  /\ mainPc = "ready"
  /\ call[c].pc = "open"
  /\ LET k == call[c].kind
         old == writers[k].client_writer = "open"
     IN
     \E created \in BOOLEAN :
       /\ writers' = [writers EXCEPT
                        ![k].client_writer = IF created THEN "open" ELSE "null",
                        ![k].broken = FALSE,
                        ![k].opens = @ + 1,
                        ![k].wd_calls = IF old THEN @ + 1 ELSE @,
                        ![k].fin_calls = IF old THEN @ + 1 ELSE @]
       /\ IF created
            THEN /\ call' = [call EXCEPT ![c].pc = "write"]
                 /\ mainPc' = mainPc
            ELSE /\ call' = call
                 /\ mainPc' = "fatal"
  /\ UNCHANGED <<callback, arg_trajectory_id, serialized, stub_,
                 trajectory_id_, submitted, numCalls, reader, remote,
                 callbacks, joins, dtorIdx>>

\* Mutant of CallOpen: an overload copied from the rangefinder one that
\* still opens rangefinder_writer_.
CallOpen_CopyPaste(c) ==
  /\ mainPc = "ready"
  /\ call[c].pc = "open"
  /\ \E created \in BOOLEAN :
       /\ writers' = [writers EXCEPT
                        !["rangefinder"].client_writer =
                           IF created THEN "open" ELSE "null",
                        !["rangefinder"].opens = @ + 1]
       /\ IF created
            THEN /\ call' = [call EXCEPT ![c].pc = "write"]
                 /\ mainPc' = mainPc
            ELSE /\ call' = call
                 /\ mainPc' = "fatal"
  /\ UNCHANGED <<callback, arg_trajectory_id, serialized, stub_,
                 trajectory_id_, submitted, numCalls, reader, remote,
                 callbacks, joins, dtorIdx>>

\* client_writer = stub_->AddXData(...); CHECK(client_writer);
CallOpen(c) ==
  /\ mainPc = "ready"
  /\ call[c].pc = "open"
  /\ LET k == call[c].kind IN
     \E created \in BOOLEAN :
       /\ writers' = [writers EXCEPT
                        ![k].client_writer = IF created THEN "open" ELSE "null",
                        ![k].broken = FALSE,
                        ![k].opens = @ + 1]
       /\ IF created
            THEN /\ call' = [call EXCEPT ![c].pc = "write"]
                 /\ mainPc' = mainPc
            ELSE /\ call' = call
                 /\ mainPc' = "fatal"      \* CHECK(client_writer)
  /\ UNCHANGED <<callback, arg_trajectory_id, serialized, stub_,
                 trajectory_id_, submitted, numCalls, reader, remote,
                 callbacks, joins, dtorIdx>>

\* Mutant of CallWrite: the result of Write is CHECKed like the other
\* transport results.
CallWrite_Checked(c) ==
  /\ mainPc = "ready"
  /\ call[c].pc = "write"
  /\ LET k == call[c].kind
         request == BuildRequest(call[c].sensor_id, call[c].sample)
     IN \E written \in BOOLEAN :
          /\ writers[k].broken => ~written
          /\ writers' = [writers EXCEPT
                           ![k].sent = Append(@, [session |-> writers[k].opens,
                                                  request |-> request]),
                           ![k].broken = @ \/ ~written]
          /\ mainPc' = IF written THEN mainPc ELSE "fatal"
  /\ call' = [call EXCEPT ![c] = IdleCall]
  /\ UNCHANGED <<callback, arg_trajectory_id, serialized, stub_,
                 trajectory_id_, submitted, numCalls, reader, remote,
                 callbacks, joins, dtorIdx>>

\* The request is built and written; Write's result is ignored.
CallWrite(c) ==
  /\ mainPc = "ready"
  /\ call[c].pc = "write"
  /\ LET k == call[c].kind
         request == BuildRequest(call[c].sensor_id, call[c].sample)
     IN \E written \in BOOLEAN :
          /\ writers[k].broken => ~written
          /\ writers' = [writers EXCEPT
                           ![k].sent = Append(@, [session |-> writers[k].opens,
                                                  request |-> request]),
                           ![k].broken = @ \/ ~written]
  /\ call' = [call EXCEPT ![c] = IdleCall]
  /\ UNCHANGED <<mainPc, callback, arg_trajectory_id, serialized, stub_,
                 trajectory_id_, submitted, numCalls, reader, remote,
                 callbacks, joins, dtorIdx>>

\* Two calls of one kind run at once and one of them is about to assign
\* client_writer while the other uses it: a data race on the pointer.
\* Besides the interleavings of the steps above, the process may die.
CallRace(c) ==
  /\ mainPc = "ready"
  /\ call[c].pc = "open"
  /\ \E d \in Callers \ {c} :
       call[d].pc # "idle" /\ call[d].kind = call[c].kind
  /\ mainPc' = "fatal"
  /\ UNCHANGED <<callback, arg_trajectory_id, serialized, stub_,
                 trajectory_id_, writers, call, submitted, numCalls, reader,
                 remote, callbacks, joins, dtorIdx>>

\* ----------------------------------------------------------- remote side
\* The n-th ReceiveLocalSlamResultsResponse of the remote: timestamp n, a
\* trajectory id that alternates with n, and, when a node was inserted, a
\* node id of the other trajectory with index n + 10.
Response(n, has_node) ==
  [trajectory_id |-> n % 2,
   timestamp |-> n, local_pose |-> n, range_data |-> n,
   has_node_id |-> has_node,
   node_id |-> IF has_node
                 THEN [trajectory_id |-> (n + 1) % 2,
                       node_index |-> n + 10]
                 ELSE [trajectory_id |-> 0, node_index |-> 0]]

\* Every other result reports a newly inserted node, the first one does.
NextHasNode == remote.emitted % 2 = 0

RemoteSend(has_node) ==
  /\ mainPc # "fatal"
  /\ reader.thread = "running"
  /\ reader.client_reader = "open"
  /\ remote.state = "open"
  /\ remote.emitted < MaxResults
  /\ remote' = [remote EXCEPT
                  !.emitted = @ + 1,
                  !.pending = Append(@, Response(remote.emitted + 1,
                                                 has_node))]
  /\ UNCHANGED <<mainPc, callback, arg_trajectory_id, serialized, stub_,
                 trajectory_id_, writers, call, submitted, numCalls, reader,
                 callbacks, joins, dtorIdx>>

\* The remote ends the inbound stream; what is pending is still delivered.
RemoteClose ==
  /\ mainPc # "fatal"
  /\ reader.thread = "running"
  /\ reader.client_reader = "open"
  /\ remote.state = "open"
  /\ remote' = [remote EXCEPT !.state = "closed"]
  /\ UNCHANGED <<mainPc, callback, arg_trajectory_id, serialized, stub_,
                 trajectory_id_, writers, call, submitted, numCalls, reader,
                 callbacks, joins, dtorIdx>>

\* The transport breaks: what was pending is lost and the next Read fails.
RemoteFault ==
  /\ mainPc # "fatal"
  /\ reader.thread = "running"
  /\ reader.client_reader = "open"
  /\ remote.state = "open"
  /\ remote' = [remote EXCEPT !.state = "fault", !.pending = <<>>]
  /\ UNCHANGED <<mainPc, callback, arg_trajectory_id, serialized, stub_,
                 trajectory_id_, writers, call, submitted, numCalls, reader,
                 callbacks, joins, dtorIdx>>

\* ---------------------------------------------------------- reader thread
\* Mutant of Decode: the node id is built with the result's trajectory id
\* in place of the node's own.
Decode_NodeOfResult(response) ==
  [trajectory_id |-> response.trajectory_id,
   time |-> FromUniversal(response.timestamp),
   local_pose |-> ToRigid3(response.local_pose),
   range_data |-> FromProto(response.range_data),
   node_id |-> IF response.has_node_id
                 THEN [trajectory_id |-> response.trajectory_id,
                       node_index |-> response.node_id.node_index]
                 ELSE "nullptr"]

\* The body of the read loop: one response decoded into the callback's
\* arguments.
Decode(response) ==
  [trajectory_id |-> response.trajectory_id,
   time |-> FromUniversal(response.timestamp),
   local_pose |-> ToRigid3(response.local_pose),
   range_data |-> FromProto(response.range_data),
   node_id |-> IF response.has_node_id
                 THEN [trajectory_id |-> response.node_id.trajectory_id,
                       node_index |-> response.node_id.node_index]
                 ELSE "nullptr"]

\* client_reader->Read(&response) returns a message.
ReadReturnsMessage == remote.state # "fault" /\ remote.pending # <<>>

\* client_reader->Read(&response) returns false.
ReadReturnsEnd ==
  \/ remote.state = "fault"
  \/ remote.state = "closed" /\ remote.pending = <<>>

\* Mutant of ReaderRead: messages that arrive in a burst are coalesced, the
\* callback sees only the last one.
ReaderRead_Coalesce ==
  /\ mainPc # "fatal"
  /\ reader.thread = "running"
  /\ reader.pc = "read"
  /\ ReadReturnsMessage
  /\ LET response == Head(remote.pending) IN
       /\ reader' = [reader EXCEPT !.reads = Append(@, response),
                                   !.pc = "callback"]
       /\ callbacks' = IF Len(remote.pending) = 1
                         THEN Append(callbacks, Decode(response))
                         ELSE callbacks
  /\ remote' = [remote EXCEPT !.pending = Tail(@)]
  /\ UNCHANGED <<mainPc, callback, arg_trajectory_id, serialized, stub_,
                 trajectory_id_, writers, call, submitted, numCalls, joins,
                 dtorIdx>>

\* while (client_reader->Read(&response)) { ...; callback(...); }
\* Read returned true: the message is decoded and the callback is entered.
ReaderRead ==
  /\ mainPc # "fatal"
  /\ reader.thread = "running"
  /\ reader.pc = "read"
  /\ ReadReturnsMessage
  /\ LET response == Head(remote.pending) IN
       /\ reader' = [reader EXCEPT !.reads = Append(@, response),
                                   !.pc = "callback"]
       /\ callbacks' = Append(callbacks, Decode(response))
  /\ remote' = [remote EXCEPT !.pending = Tail(@)]
  /\ UNCHANGED <<mainPc, callback, arg_trajectory_id, serialized, stub_,
                 trajectory_id_, writers, call, submitted, numCalls, joins,
                 dtorIdx>>

\* The callback returns and the loop goes back to Read.
CallbackReturn ==
  /\ mainPc # "fatal"
  /\ reader.thread = "running"
  /\ reader.pc = "callback"
  /\ reader' = [reader EXCEPT !.pc = "read"]
  /\ UNCHANGED <<mainPc, callback, arg_trajectory_id, serialized, stub_,
                 trajectory_id_, writers, call, submitted, numCalls, remote,
                 callbacks, joins, dtorIdx>>

\* Mutant of ReaderReadEnd: the reader insists on a clean end of stream
\* and aborts on a transport fault.
ReaderReadEnd_FaultIsFatal ==
  /\ mainPc # "fatal"
  /\ reader.thread = "running"
  /\ reader.pc = "read"
  /\ ReadReturnsEnd
  /\ reader' = [reader EXCEPT !.ended = TRUE, !.pc = "finish"]
  /\ mainPc' = IF remote.state = "fault" THEN "fatal" ELSE mainPc
  /\ UNCHANGED <<callback, arg_trajectory_id, serialized, stub_,
                 trajectory_id_, writers, call, submitted, numCalls, remote,
                 callbacks, joins, dtorIdx>>

\* Read returned false: the loop is left.
ReaderReadEnd ==
  /\ mainPc # "fatal"
  /\ reader.thread = "running"
  /\ reader.pc = "read"
  /\ ReadReturnsEnd
  /\ reader' = [reader EXCEPT !.ended = TRUE, !.pc = "finish"]
  /\ UNCHANGED <<mainPc, callback, arg_trajectory_id, serialized, stub_,
                 trajectory_id_, writers, call, submitted, numCalls, remote,
                 callbacks, joins, dtorIdx>>

\* Mutant of ReaderFinish: the status of the inbound Finish is CHECKed
\* like the outbound ones.
ReaderFinish_Checked ==
  /\ mainPc # "fatal"
  /\ reader.thread = "running"
  /\ reader.pc = "finish"
  /\ \E status_ok \in BOOLEAN :
       /\ reader' = [reader EXCEPT !.fin_calls = @ + 1, !.fin_ok = status_ok,
                                   !.pc = "none", !.thread = "exited"]
       /\ mainPc' = IF status_ok THEN mainPc ELSE "fatal"
  /\ UNCHANGED <<callback, arg_trajectory_id, serialized, stub_,
                 trajectory_id_, writers, call, submitted, numCalls, remote,
                 callbacks, joins, dtorIdx>>

\* Mutant of ReaderFinish: on the end of the inbound stream the reader
\* thread also signals end-of-writes on the rangefinder writer.
ReaderFinish_ClosesWriter ==
  /\ mainPc # "fatal"
  /\ reader.thread = "running"
  /\ reader.pc = "finish"
  /\ \E status_ok \in BOOLEAN :
       reader' = [reader EXCEPT !.fin_calls = @ + 1, !.fin_ok = status_ok,
                                !.pc = "none", !.thread = "exited"]
  /\ writers' = [writers EXCEPT !["rangefinder"].wd_calls = @ + 1]
  /\ UNCHANGED <<mainPc, callback, arg_trajectory_id, serialized, stub_,
                 trajectory_id_, call, submitted, numCalls, remote,
                 callbacks, joins, dtorIdx>>

\* client_reader->Finish(); the status is dropped and the thread exits.
ReaderFinish ==
  /\ mainPc # "fatal"
  /\ reader.thread = "running"
  /\ reader.pc = "finish"
  /\ \E status_ok \in BOOLEAN :
       reader' = [reader EXCEPT !.fin_calls = @ + 1, !.fin_ok = status_ok,
                                !.pc = "none", !.thread = "exited"]
  /\ UNCHANGED <<mainPc, callback, arg_trajectory_id, serialized, stub_,
                 trajectory_id_, writers, call, submitted, numCalls, remote,
                 callbacks, joins, dtorIdx>>

\* What a read through the null pointer may leave in `response`.
GarbageResponse == Response(0, FALSE)

\* client_reader->Read(&response) through a null client_reader: undefined
\* behaviour.  The process dies, or the call seems to return false and the
\* thread runs to its end, or it seems to return true and the callback is
\* invoked on whatever `response` holds.
ReadMissingHandle ==
  /\ mainPc # "fatal"
  /\ reader.thread = "running"
  /\ reader.pc = "read_null"
  /\ \E outcome \in {"dies", "false", "true"} :
       /\ outcome = "true" => Len(reader.reads) < MaxResults
       /\ mainPc' = IF outcome = "dies" THEN "fatal" ELSE mainPc
       /\ reader' =
            CASE outcome = "dies" -> reader
              [] outcome = "false" ->
                   [reader EXCEPT !.ended = TRUE, !.fin_calls = @ + 1,
                                  !.pc = "none", !.thread = "exited"]
              [] outcome = "true" ->
                   [reader EXCEPT !.reads = Append(@, GarbageResponse)]
       /\ callbacks' = IF outcome = "true"
                         THEN Append(callbacks, Decode(GarbageResponse))
                         ELSE callbacks
  /\ UNCHANGED <<callback, arg_trajectory_id, serialized, stub_,
                 trajectory_id_, writers, call, submitted, numCalls, remote,
                 joins, dtorIdx>>

\* -------------------------------------------------------------- destructor
\* Mutant of DtorOrder: the writers are finalized in reverse declaration
\* order, as member destructors would run.
DtorOrder_Reversed == <<"fixed_frame", "odometry", "imu", "rangefinder">>

\* The order in which the destructor looks at the four writers.
DtorOrder == <<"rangefinder", "imu", "odometry", "fixed_frame">>

AllIdle == \A c \in Callers : call[c].pc = "idle"

\* Mutant of HasThread: the destructor joins unconditionally.
HasThread_Always(r) == TRUE

\* `if (local_slam_result_reader_.thread)`: is there a thread to join?
HasThread(r) == r.thread # "absent"

\* Mutant of DtorFirstStep: the writers are finalized without joining.
DtorFirstStep_NoJoin(r) == "finalize"

\* Where the destructor goes first: the join when there is a reader thread,
\* the writers otherwise.
DtorFirstStep(r) == IF HasThread(r) THEN "join" ELSE "finalize"

\* ~TrajectoryBuilderStub is entered.
DtorBegin ==
  /\ mainPc = "ready"
  /\ AllIdle
  /\ mainPc' = DtorFirstStep(reader)
  /\ dtorIdx' = 1
  /\ UNCHANGED <<callback, arg_trajectory_id, serialized, stub_,
                 trajectory_id_, writers, call, submitted, numCalls, reader,
                 remote, callbacks, joins>>

\* Mutant of DtorJoin: the destructor stops waiting for the reader thread
\* (a timed join, or a detach).
DtorJoin_NoWait ==
  /\ mainPc = "join"
  /\ reader' = [reader EXCEPT !.thread = "joined"]
  /\ joins' = joins + 1
  /\ mainPc' = "finalize"
  /\ UNCHANGED <<callback, arg_trajectory_id, serialized, stub_,
                 trajectory_id_, writers, call, submitted, numCalls, remote,
                 callbacks, dtorIdx>>

\* thread->join() returns: it blocks until the reader thread has exited.
DtorJoin ==
  /\ mainPc = "join"
  /\ reader.thread = "exited"
  /\ reader' = [reader EXCEPT !.thread = "joined"]
  /\ joins' = joins + 1
  /\ mainPc' = "finalize"
  /\ UNCHANGED <<callback, arg_trajectory_id, serialized, stub_,
                 trajectory_id_, writers, call, submitted, numCalls, remote,
                 callbacks, dtorIdx>>

\* CHECK(w->WritesDone()); CHECK(w->Finish().ok()); on one writer, with
\* the results the transport gives.  Finish is not reached when WritesDone
\* failed.
FinalizeWriter(w, wd_ok, fin_ok) ==
  IF wd_ok
    THEN [w EXCEPT !.wd_calls = @ + 1, !.wd_ok = TRUE,
                   !.fin_calls = @ + 1, !.fin_ok = fin_ok]
    ELSE [w EXCEPT !.wd_calls = @ + 1, !.wd_ok = FALSE]

\* Mutant of ChecksPass: the status of Finish is not checked.
ChecksPass_FinishIgnored(wd_ok, fin_ok) == wd_ok

\* Both CHECKs of one writer's block passed.
ChecksPass(wd_ok, fin_ok) == wd_ok /\ fin_ok

\* Mutant of AfterHandle: the destructor returns one block early and the
\* last writer's block is never run.
AfterHandle_SkipsLast(i) ==
  IF i >= Len(DtorOrder) - 1 THEN "done" ELSE "finalize"

\* Position of the destructor after the block of handle number i.
AfterHandle(i) == IF i = Len(DtorOrder) THEN "done" ELSE "finalize"

\* One `if (X_writer_.client_writer) { CHECK(...); CHECK(...); }` block.
DtorFinalize ==
  /\ mainPc = "finalize"
  /\ dtorIdx \in 1..Len(DtorOrder)
  /\ LET k == DtorOrder[dtorIdx] IN
       IF NeedsOpen(writers[k])
         THEN /\ writers' = writers
              /\ mainPc' = AfterHandle(dtorIdx)
              /\ dtorIdx' = dtorIdx + 1
         ELSE \E wd_ok \in BOOLEAN, fin_ok \in BOOLEAN :
                \* a stream on which a write failed does not finish OK
                /\ writers[k].broken => ~fin_ok
                /\ writers' = [writers EXCEPT
                                 ![k] = FinalizeWriter(@, wd_ok, fin_ok)]
                /\ IF ChecksPass(wd_ok, fin_ok)
                     THEN /\ mainPc' = AfterHandle(dtorIdx)
                          /\ dtorIdx' = dtorIdx + 1
                     ELSE /\ mainPc' = "fatal"
                          /\ dtorIdx' = dtorIdx
  /\ UNCHANGED <<callback, arg_trajectory_id, serialized, stub_,
                 trajectory_id_, call, submitted, numCalls, reader, remote,
                 callbacks, joins>>

\* ---------------------------------------------------------- specification
AddSensorData ==
  \E c \in Callers :
    \/ \E k \in Kinds : CallBegin(c, k, NextSensorId, NextSample)
    \/ CallOpen(c)
    \/ CallWrite(c)

Remote ==
  \/ RemoteSend(NextHasNode)
  \/ RemoteClose
  \/ RemoteFault

RunLocalSlamResultReader ==
  \/ ReaderRead
  \/ CallbackReturn
  \/ ReaderReadEnd
  \/ ReaderFinish

Destructor ==
  \/ DtorBegin
  \/ DtorJoin
  \/ DtorFinalize

Next ==
  \/ Construct
  \/ AddSensorData
  \/ Remote
  \/ RunLocalSlamResultReader
  \/ Destructor

Spec == Init /\ [][Next]_vars

\* Fair scheduling of the adapter's own threads: the reader thread gets to
\* run its loop and the destroying thread its destructor.  Nothing is
\* assumed of the remote, of the callback or of the caller.
Fairness ==
  /\ WF_vars(ReaderRead)
  /\ WF_vars(ReaderReadEnd)
  /\ WF_vars(ReaderFinish)
  /\ WF_vars(DtorJoin)
  /\ WF_vars(DtorFinalize)

\* Adapters with a result callback; the trajectory id plays no part in the
\* scheduling.
LiveInit == Init /\ callback /\ arg_trajectory_id = 1

LiveSpec == LiveInit /\ [][Next]_vars /\ Fairness

\* The adapter on a transport whose ReceiveLocalSlamResults may also return
\* no reader.
NextNull ==
  \/ Next
  \/ ConstructMissingReader
  \/ ReadMissingHandle

NullSpec == Init /\ [][NextNull]_vars

\* The adapter with callers that may or may not serialize same-kind calls.
RaceInit ==
  /\ mainPc = "init"
  /\ callback \in BOOLEAN
  /\ arg_trajectory_id = 1
  /\ serialized \in BOOLEAN
  /\ stub_ = "null"
  /\ trajectory_id_ = Unset
  /\ writers = [k \in Kinds |-> NewWriter]
  /\ call = [c \in Callers |-> IdleCall]
  /\ submitted = [k \in Kinds |-> <<>>]
  /\ numCalls = 0
  /\ reader = NewReader
  /\ remote = [state |-> "open", pending |-> <<>>, emitted |-> 0]
  /\ callbacks = <<>>
  /\ joins = 0
  /\ dtorIdx = 1

RaceNext ==
  \/ Next
  \/ \E c \in Callers : CallRace(c)

RaceSpec == RaceInit /\ [][RaceNext]_vars

\* ------------------------------------------------------------------ claims
WritersFinalized == {k \in Kinds : writers[k].wd_calls > 0
                                   \/ writers[k].fin_calls > 0}

\* C1: with same-kind calls serialized, every kind's outbound session is
\* opened at most once, by the first AddSensorData call of that kind:
\* nothing is written before the open, and every message of a kind goes to
\* session number 1.
C1_OpenedAtMostOnce ==
  \A k \in Kinds :
    /\ writers[k].opens <= 1
    /\ writers[k].opens = 1 => submitted[k] # <<>>
    /\ \A i \in 1..Len(writers[k].sent) : writers[k].sent[i].session = 1

\* C1 witness: a second call of a kind has written and the kind still has
\* one session.
C1_Witness ==
  \E k \in Kinds : Len(writers[k].sent) >= 2 /\ writers[k].opens = 1

\* A call of kind k is between its entry and its return.
InCall(k) == \E c \in Callers : call[c].pc # "idle" /\ call[c].kind = k

\* C2: the messages written to a kind's session are the samples submitted
\* for that kind, in call order, one message per call: the i-th message
\* carries the i-th submitted sample, and once the calls of that kind have
\* returned there are as many messages as calls.
C2_WrittenIsSubmitted ==
  \A k \in Kinds :
    /\ Len(writers[k].sent) <= Len(submitted[k])
    /\ ~InCall(k) /\ mainPc # "fatal"
         => Len(writers[k].sent) = Len(submitted[k])
    /\ InCall(k) /\ mainPc # "fatal"
         => Len(writers[k].sent) = Len(submitted[k]) - 1
    /\ \A i \in 1..Len(writers[k].sent) :
         /\ writers[k].sent[i].request.data = ToProto(submitted[k][i].sample)
         /\ writers[k].sent[i].request.sensor_metadata.sensor_id
              = submitted[k][i].sensor_id

\* C2 witness: two samples of one kind were submitted and both are written.
C2_Witness ==
  \E k \in Kinds : Len(submitted[k]) = 2 /\ Len(writers[k].sent) = 2

\* C3: when a reader thread was started, no outbound handle gets WritesDone
\* or Finish before the join has returned.
C3_JoinBeforeFinalize ==
  HasThread(reader) /\ WritersFinalized # {}
    => reader.thread = "joined" /\ joins = 1

\* C3 witness: the reader was joined and a handle was then finalized.
C3_Witness ==
  reader.thread = "joined" /\ WritersFinalized # {}

\* C4 (state part): one callback invocation per message read, in arrival
\* order: the i-th invocation is the decoding of the i-th message read, and
\* the i-th message read is the i-th message the remote emitted.
C4_OnePerMessage ==
  /\ Len(callbacks) = Len(reader.reads)
  /\ \A i \in 1..Len(reader.reads) :
       /\ reader.reads[i].timestamp = i
       /\ callbacks[i] = Decode(reader.reads[i])
       /\ callbacks[i].time = FromUniversal(i)

\* C4 (step part): once a Read has reported the end of the stream the
\* callback is not invoked again.
C4_NoneAfterEnd == reader.ended => callbacks' = callbacks

\* C4: with a result callback, the callback invocations are the messages
\* read from the inbound stream, one invocation per message, in arrival
\* order, and none after a read reported end of stream.
C4_CallbacksAreReads == [](C4_OnePerMessage) /\ [][C4_NoneAfterEnd]_vars

\* C4 witness: two messages were read and delivered and the loop has ended.
C4_Witness ==
  Len(callbacks) = 2 /\ Len(reader.reads) = 2 /\ reader.ended

\* No operation was performed on the inbound session.
NoInboundOps ==
  /\ reader.client_reader = "null"
  /\ reader.opens = 0
  /\ reader.reads = <<>>
  /\ reader.fin_calls = 0
  /\ ~reader.ended

\* C5: without a result callback, no inbound session is ever opened, no
\* reader thread exists, and the destructor does not join.
C5_NoCallbackNoReader ==
  ~callback =>
    /\ NoInboundOps
    /\ reader.thread = "absent"
    /\ joins = 0
    /\ mainPc # "join"
    /\ callbacks = <<>>

\* C5 witness: an adapter without callback was used and destroyed.
C5_Witness ==
  ~callback /\ mainPc = "done" /\ numCalls > 0

\* The finalize of handle k was attempted and did not succeed.
FinalizeFailed(k) ==
  /\ writers[k].wd_calls > 0
  /\ \/ ~writers[k].wd_ok
     \/ writers[k].fin_calls > 0 /\ ~writers[k].fin_ok

\* The finalize of handle k was done and succeeded.
FinalizeSucceeded(k) ==
  /\ writers[k].wd_calls = 1 /\ writers[k].wd_ok
  /\ writers[k].fin_calls = 1 /\ writers[k].fin_ok

\* C6: a failed WritesDone or a non-OK Finish on an open handle ends the
\* destruction in the fatal state; the destruction completes normally only
\* if the finalize of every open handle succeeded.
C6_FinalizeFailureIsFatal ==
  /\ \A k \in Kinds : FinalizeFailed(k) => mainPc = "fatal"
  /\ mainPc = "done" =>
       \A k \in Kinds : writers[k].client_writer = "open"
                          => FinalizeSucceeded(k)

\* C6 witness: WritesDone succeeded, Finish did not, the process is in the
\* fatal state.
C6_Witness ==
  \E k \in Kinds : /\ writers[k].wd_ok
                   /\ writers[k].fin_calls = 1 /\ ~writers[k].fin_ok
                   /\ mainPc = "fatal"

\* No operation was performed on any outbound session.
NoOutboundOps ==
  \A k \in Kinds :
    /\ writers[k].opens = 0
    /\ writers[k].sent = <<>>
    /\ writers[k].wd_calls = 0
    /\ writers[k].fin_calls = 0

\* C7: destroying an adapter built without callback and never given a
\* sample performs no stream operation and no join, and neither blocks in
\* the join nor ends in the fatal state.
C7_EmptyDestroyIsClean ==
  ~callback /\ numCalls = 0 /\ stub_ = "stub" /\ mainPc # "ready"
    => /\ mainPc \in {"finalize", "done"}
       /\ NoOutboundOps
       /\ NoInboundOps
       /\ joins = 0

\* C7 witness: such an adapter has been destroyed.
C7_Witness ==
  ~callback /\ numCalls = 0 /\ mainPc = "done"

\* An AddSensorData call has opened or written a session, or the reader has
\* read.
AnyStreamUse ==
  \/ \E k \in Kinds : writers[k].opens > 0 \/ writers[k].sent # <<>>
  \/ reader.reads # <<>>
  \/ reader.ended

\* C8: with a result callback, once the constructor has returned the
\* inbound session is open with a request carrying the adapter's trajectory
\* id and the reader thread is started; so every outbound open or write and
\* every inbound read comes after the inbound open.
C8_SubscribedAtConstruction ==
  callback =>
    /\ mainPc \in {"ready", "join", "finalize", "done"} =>
         /\ reader.opens = 1
         /\ reader.client_reader = "open"
         /\ reader.request = arg_trajectory_id
         /\ reader.request = trajectory_id_
         /\ HasThread(reader)
    /\ AnyStreamUse => reader.opens = 1

\* C8 witness: the adapter with callback has written a sample and read a
\* result.
C8_Witness ==
  /\ callback
  /\ \E k \in Kinds : writers[k].sent # <<>>
  /\ reader.reads # <<>>

\* C10: every message written to an outbound session carries the trajectory
\* id given at construction and the sensor id of its AddSensorData call,
\* and the adapter's trajectory id stays the constructor's argument.
C10_MetadataOfEveryMessage ==
  /\ mainPc # "init" => trajectory_id_ = arg_trajectory_id
  /\ \A k \in Kinds : \A i \in 1..Len(writers[k].sent) :
       LET metadata == writers[k].sent[i].request.sensor_metadata IN
         /\ metadata.trajectory_id = arg_trajectory_id
         /\ metadata.sensor_id = submitted[k][i].sensor_id

\* C10 witness: two kinds have a message written, for a trajectory id that
\* is not the proto default.
C10_Witness ==
  /\ arg_trajectory_id # 0
  /\ \E k1 \in Kinds, k2 \in Kinds :
       k1 # k2 /\ writers[k1].sent # <<>> /\ writers[k2].sent # <<>>

\* C9 (liveness part): if the remote eventually ends the inbound stream,
\* every callback invocation returns and no finalize fails, a destructor
\* waiting in the join eventually completes.
C9_Completes ==
  (/\ <>(remote.state # "open")
   /\ []<>(reader.pc # "callback")
   /\ [](mainPc # "fatal"))
    => (mainPc = "join" ~> mainPc = "done")

\* C9 (blocking part, one step): while the remote keeps the inbound stream
\* open, a destructor in the join stays in the join and no outbound handle
\* is finalized.
C9_BlockedStep ==
  mainPc = "join" /\ remote.state = "open" /\ remote'.state = "open"
    => mainPc' = "join" /\ WritersFinalized' = {}

\* C9: destruction of an adapter with a reader thread completes when the
\* remote ends the inbound stream (fair scheduling, returning callbacks,
\* successful finalizes), and stays blocked in the join, with no outbound
\* handle finalized, for as long as the remote does not end it.
C9_DestructionFollowsRemote ==
  /\ C9_Completes
  /\ [][C9_BlockedStep]_vars
  /\ [](mainPc = "join" => WritersFinalized = {} /\ joins = 0)

\* C9 witness: the destructor waited in the join with an open handle, the
\* remote ended the stream, and the destruction completed.
C9_Witness ==
  /\ mainPc = "done"
  /\ reader.thread = "joined"
  /\ remote.state # "open"
  /\ WritersFinalized # {}

\* A CHECK of the adapter has failed: the stub or an outbound session was
\* not created, or the finalize of an outbound handle did not succeed.
SomeCheckFailed ==
  \/ stub_ = "null"
  \/ \E k \in Kinds : writers[k].opens > 0 /\ writers[k].client_writer = "null"
  \/ \E k \in Kinds : FinalizeFailed(k)

\* C11 (state part): the inbound session is opened once whatever the reads
\* report, every invocation belongs to a message read, and the process is
\* in the fatal state only through one of the adapter's CHECKs, never
\* through a read.
C11_NoReadError ==
  /\ reader.opens <= 1
  /\ Len(callbacks) = Len(reader.reads)
  /\ mainPc = "fatal" => SomeCheckFailed

\* C11 (step part): the step in which a read reports the end, by fault as
\* by clean close, only leaves the loop: no invocation, nothing read, no
\* reopening, the caller's thread untouched; and afterwards the reader never
\* reads or opens again.
C11_EndStep ==
  /\ ~reader.ended /\ reader'.ended
       => /\ callbacks' = callbacks
          /\ reader'.reads = reader.reads
          /\ reader'.opens = reader.opens
          /\ reader'.pc = "finish"
          /\ mainPc' = mainPc
  /\ reader.ended
       => /\ reader'.ended
          /\ reader'.reads = reader.reads
          /\ reader'.opens = reader.opens
          /\ callbacks' = callbacks

\* C11: a transport fault during a read ends the reader loop exactly as a
\* clean end of stream does: no callback for the failed read, no retry, no
\* reopening of the inbound session, no error or fatal state for the caller.
C11_FaultEndsLikeClose == [](C11_NoReadError) /\ [][C11_EndStep]_vars

\* C11 witness: a message was delivered, then a read failed on a transport
\* fault, the loop ended and the destruction completed normally.
C11_Witness ==
  /\ remote.state = "fault"
  /\ reader.ended
  /\ Len(callbacks) = 1
  /\ mainPc = "done"

\* C12 (state part): a handle on which a write failed stays open on its one
\* session; the process is fatal only through a CHECK, and a destruction
\* does not complete normally over a handle with a failed write.
C12_BrokenStaysOpen ==
  /\ \A k \in Kinds :
       writers[k].broken =>
         /\ writers[k].opens = 1
         /\ writers[k].client_writer = "open"
         /\ \A i \in 1..Len(writers[k].sent) : writers[k].sent[i].session = 1
         /\ mainPc # "done"
  /\ mainPc = "fatal" => SomeCheckFailed

\* C12 (step part): the call whose write fails returns normally, leaving
\* the caller's thread where it was and the handle open; a write on a
\* handle that already had a failed write goes to the same session.
C12_WriteStep ==
  \A k \in Kinds :
    Len(writers'[k].sent) > Len(writers[k].sent) =>
      /\ mainPc' = mainPc
      /\ writers'[k].client_writer = "open"
      /\ writers'[k].opens = writers[k].opens
      /\ Len(writers'[k].sent) = Len(writers[k].sent) + 1
      /\ \E c \in Callers : call[c].kind = k /\ call'[c] = IdleCall

\* C12: a failed write is not reported by AddSensorData: the call returns
\* normally, the handle stays open, later calls of the kind write to the
\* same session, and the fault shows only as a fatal finalize failure in
\* the destructor.
C12_WriteFaultSurfacesAtFinalize ==
  [](C12_BrokenStaysOpen) /\ [][C12_WriteStep]_vars

\* C12 witness: the only write of a kind has failed, its call has returned,
\* and the next call of the kind is past the pointer test, about to write
\* to the same session.
C12_Witness ==
  \E k \in Kinds, c \in Callers :
    /\ writers[k].broken
    /\ Len(writers[k].sent) = 1
    /\ writers[k].opens = 1
    /\ call[c].kind = k /\ call[c].pc = "write"
    /\ mainPc = "ready"

\* C13, the stub: when NewStub returns none the process is fatal and
\* nothing was done through the stub.
C13_StubChecked ==
  mainPc # "init" /\ stub_ = "null"
    => mainPc = "fatal" /\ NoOutboundOps /\ NoInboundOps

\* C13, the outbound sessions: when a session is not created the process
\* is fatal and that handle was neither written nor finalized.
C13_WritersChecked ==
  \A k \in Kinds :
    writers[k].opens > 0 /\ writers[k].client_writer = "null"
      => /\ mainPc = "fatal"
         /\ writers[k].sent = <<>>
         /\ writers[k].wd_calls = 0 /\ writers[k].fin_calls = 0

\* C13, the inbound session: when it is not created the process is fatal,
\* no thread was started on it and nothing was read from it.
C13_ReaderChecked ==
  reader.opens > 0 /\ reader.client_reader = "null"
    => /\ mainPc = "fatal"
       /\ reader.thread = "absent"
       /\ reader.reads = <<>>
       /\ callbacks = <<>>

\* C13: whenever the creation of the stub or of a session, outbound or
\* inbound, returns no usable handle, the process is in the fatal state
\* before the handle is used: no write, read or thread start on it.
C13_MissingHandleIsFatal ==
  C13_StubChecked /\ C13_WritersChecked /\ C13_ReaderChecked

\* The requests of the first n samples submitted for kind k.
RequestsOf(k, n) ==
  [i \in 1..n |-> BuildRequest(submitted[k][i].sensor_id,
                               submitted[k][i].sample)]

\* C14, per kind: whatever calls of other kinds are in flight, kind k has at
\* most one session, it is open exactly when a call of kind k has opened
\* it, and its messages are the first samples submitted for k, in order.
C14_PerKind ==
  \A k \in Kinds :
    /\ writers[k].opens <= 1
    /\ mainPc # "fatal"
         => (writers[k].client_writer = "open" <=> writers[k].opens = 1)
    /\ Len(writers[k].sent) <= Len(submitted[k])
    /\ [i \in 1..Len(writers[k].sent) |-> writers[k].sent[i].request]
         = RequestsOf(k, Len(writers[k].sent))

\* The kind of the call that caller c's step belongs to.
StepKind(c) == IF call[c].pc = "idle" THEN call'[c].kind ELSE call[c].kind

\* C14, per step: a step of a call of kind k leaves the other three handles
\* and their submissions unchanged, decides between opening and writing
\* from handle k alone, and writes to handle k's current session.
C14_KindStep ==
  \A c \in Callers :
    call'[c] # call[c] =>
      LET k == StepKind(c) IN
        /\ \A j \in Kinds \ {k} :
             writers'[j] = writers[j] /\ submitted'[j] = submitted[j]
        /\ call[c].pc = "idle" =>
             /\ writers' = writers
             /\ call'[c].pc = (IF writers[k].client_writer = "null"
                                 THEN "open" ELSE "write")
        /\ call[c].pc = "open" =>
             /\ writers'[k].opens = writers[k].opens + 1
             /\ writers'[k].sent = writers[k].sent
        /\ call[c].pc = "write" =>
             /\ writers'[k].opens = writers[k].opens
             /\ writers'[k].client_writer = writers[k].client_writer
             /\ Len(writers'[k].sent) = Len(writers[k].sent) + 1

\* C14, a failed open: the step that makes the process fatal during a call
\* is the open of some call in flight, and it touched that call's handle
\* only.
C14_FailedOpenStep ==
  mainPc = "ready" /\ mainPc' = "fatal" =>
    \E c \in Callers :
      /\ call[c].pc = "open"
      /\ writers'[call[c].kind].opens = writers[call[c].kind].opens + 1
      /\ \A j \in Kinds \ {call[c].kind} : writers'[j] = writers[j]
      /\ submitted' = submitted

\* C14: AddSensorData calls of different kinds may interleave freely: a
\* call of kind K reads and changes only handle K, so every kind keeps its
\* open-once and call-order properties.
C14_KindsAreIndependent ==
  [](C14_PerKind) /\ [][C14_KindStep /\ C14_FailedOpenStep]_vars

\* C14 witness: two calls of different kinds are in flight at once, one has
\* opened its session and is about to write, the other is about to open.
C14_Witness ==
  \E c, d \in Callers :
    /\ call[c].pc = "write" /\ call[d].pc = "open"
    /\ call[c].kind # call[d].kind
    /\ writers[call[c].kind].opens = 1
    /\ writers[call[d].kind].opens = 0

\* A step of the reader task: it reads, finalizes, or runs the callback.
ReaderTaskStep ==
  \/ callbacks' # callbacks
  \/ reader'.reads # reader.reads
  \/ reader'.ended # reader.ended
  \/ reader'.fin_calls # reader.fin_calls
  \/ (reader.thread = "running" /\ reader'.pc # reader.pc)

\* A step of the calling thread: constructor, AddSensorData or destructor.
CallingThreadStep ==
  \/ mainPc' # mainPc
  \/ call' # call
  \/ writers' # writers
  \/ submitted' # submitted
  \/ joins' # joins
  \/ dtorIdx' # dtorIdx

\* C15, per step: a reader step touches no outbound handle and nothing of
\* the calling thread; a calling-thread step reads nothing from the inbound
\* session and invokes no callback, and changes the reader's state only by
\* starting the thread in the constructor and by the join, which waits for
\* the thread to have exited.
C15_OwnershipStep ==
  /\ ReaderTaskStep =>
       /\ reader.thread = "running"
       /\ writers' = writers /\ call' = call /\ submitted' = submitted
       /\ mainPc' = mainPc /\ joins' = joins /\ dtorIdx' = dtorIdx
  /\ CallingThreadStep =>
       /\ callbacks' = callbacks
       /\ remote' = remote
       /\ \/ reader' = reader
          \/ /\ mainPc = "init" /\ callback
             /\ reader' = StartReader(reader, arg_trajectory_id)
          \/ /\ mainPc = "join" /\ reader.thread = "exited"
             /\ reader' = [reader EXCEPT !.thread = "joined"]

\* C15: ownership is partitioned: the reader task works on the inbound
\* session and the callback only, the calling thread on everything else,
\* and the two meet only at the destructor's join; callbacks and reads
\* exist only where a reader thread was started.
C15_OwnershipPartitioned ==
  /\ [](reader.thread = "absent"
          => callbacks = <<>> /\ reader.reads = <<>> /\ reader.fin_calls = 0)
  /\ [][C15_OwnershipStep]_vars

\* C15 witness: the reader task is inside the callback while a call on the
\* calling thread is about to write, after an earlier write.
C15_Witness ==
  /\ reader.pc = "callback"
  /\ Len(callbacks) = 2
  /\ \E c \in Callers : call[c].pc = "write"
  /\ \E k \in Kinds : writers[k].sent # <<>>

\* C16, at every moment: a handle gets at most one end-of-writes signal,
\* and a completion wait only after a successful end-of-writes signal.
C16_SignalThenWait ==
  \A k \in Kinds :
    /\ writers[k].wd_calls <= 1
    /\ writers[k].fin_calls <= writers[k].wd_calls
    /\ writers[k].fin_calls = 1 => writers[k].wd_ok

\* C16, after a destruction that completed: the finalized handles are the
\* kinds AddSensorData was called for; each got one end-of-writes signal
\* and one completion wait; a handle never opened got no operation.
C16_AtDone ==
  mainPc = "done" =>
    /\ WritersFinalized = {k \in Kinds : submitted[k] # <<>>}
    /\ \A k \in Kinds :
         IF submitted[k] # <<>>
           THEN /\ writers[k].opens = 1
                /\ writers[k].wd_calls = 1 /\ writers[k].fin_calls = 1
           ELSE /\ writers[k].opens = 0
                /\ writers[k].sent = <<>>
                /\ writers[k].wd_calls = 0 /\ writers[k].fin_calls = 0

\* C16, per step: nothing is written to a handle after its end-of-writes
\* signal.
C16_NoWriteAfterSignal ==
  \A k \in Kinds :
    writers[k].wd_calls > 0 => writers'[k].sent = writers[k].sent

\* C16: a destruction that completes normally finalizes exactly the handles
\* of the kinds that were submitted, each with one end-of-writes signal
\* followed by one completion wait, with no write after the signal.
C16_FinalizedAreTheOpened ==
  [](C16_SignalThenWait /\ C16_AtDone) /\ [][C16_NoWriteAfterSignal]_vars

\* C16 witness: built without a callback, one range sample and one imu
\* sample were written, and the destruction has completed.
C16_Witness ==
  /\ mainPc = "done"
  /\ ~callback
  /\ Len(writers["rangefinder"].sent) = 1
  /\ Len(writers["imu"].sent) = 1
  /\ reader.thread = "absent"

\* C17, at every moment: the inbound session is finalized at most once, only
\* after the read loop has exited; the reader thread has exited exactly
\* when the finalize is done, so a join that returned has it behind it.
C17_FinalizedOnce ==
  /\ reader.fin_calls <= 1
  /\ reader.fin_calls = 1 => reader.ended /\ reader.opens = 1
  /\ reader.thread \in {"exited", "joined"} <=> reader.fin_calls = 1
  /\ joins > 0 => reader.fin_calls = 1
  /\ reader.opens = 1 /\ mainPc \in {"finalize", "done"}
       => reader.fin_calls = 1

\* C17, per step: the finalize is a step of the reader task after the loop,
\* whatever its status it leaves the calling thread where it was, and the
\* join that follows hands over to the finalization of the writers.
C17_FinalizeStep ==
  /\ reader'.fin_calls # reader.fin_calls =>
       /\ reader.thread = "running" /\ reader.pc = "finish" /\ reader.ended
       /\ reader'.fin_calls = reader.fin_calls + 1
       /\ mainPc' = mainPc
       /\ writers' = writers
       /\ joins' = joins
  /\ joins' # joins =>
       /\ reader.fin_calls = 1
       /\ mainPc' = "finalize"
       /\ dtorIdx' = 1

\* C17: the inbound session is finalized exactly once, by the reader task,
\* after the read loop and before the join returns; a non-success status
\* of it is not fatal and destruction goes on to the outbound handles.
C17_InboundFinalize == [](C17_FinalizedOnce) /\ [][C17_FinalizeStep]_vars

\* C17 witness: the inbound finalize returned a non-success status, and the
\* destruction completed after finalizing an outbound handle.
C17_Witness ==
  /\ reader.fin_calls = 1 /\ ~reader.fin_ok
  /\ joins = 1
  /\ mainPc = "done"
  /\ WritersFinalized # {}

\* C18: for every inbound message the callback's trajectory id is the
\* message's, and the callback gets a node id exactly when the message
\* carries one, with the message's node trajectory id and node index.
C18_NodeIdIffCarried ==
  /\ Len(callbacks) <= Len(reader.reads)
  /\ \A i \in 1..Len(callbacks) :
       LET m == reader.reads[i]
           a == callbacks[i]
       IN /\ a.trajectory_id = m.trajectory_id
          /\ IF m.has_node_id
               THEN a.node_id = [trajectory_id |-> m.node_id.trajectory_id,
                                 node_index |-> m.node_id.node_index]
               ELSE a.node_id = "nullptr"

\* C18 witness: a message with a node id and one without were delivered,
\* the node's trajectory differing from the message's, and a message's
\* trajectory differing from the builder's own.
C18_Witness ==
  /\ Len(callbacks) = 2
  /\ \E i, j \in 1..2 :
       /\ reader.reads[i].has_node_id
       /\ reader.reads[i].node_id.trajectory_id
            # reader.reads[i].trajectory_id
       /\ ~reader.reads[j].has_node_id
       /\ reader.reads[j].trajectory_id # trajectory_id_

\* C19, at every moment: with same-kind calls serialized a handle is opened
\* at most once; without, every call may open one session, and still the
\* handle gets at most one end-of-writes signal and one completion wait,
\* so every session but one is never finalized.
C19_OpenOnceNeedsSerialized ==
  \A k \in Kinds :
    /\ serialized => writers[k].opens <= 1
    /\ writers[k].opens <= Len(submitted[k])
    /\ writers[k].wd_calls <= 1 /\ writers[k].fin_calls <= 1
    /\ \A i \in 1..Len(writers[k].sent) :
         writers[k].sent[i].session \in 1..writers[k].opens

\* C19, per step: the test and the open are two steps; an open that
\* replaces a session sends it no end-of-writes signal and no completion
\* wait, and once the destructor finalizes no session is opened.
C19_ReplaceStep ==
  \A k \in Kinds :
    /\ writers'[k].opens # writers[k].opens =>
         /\ writers'[k].opens = writers[k].opens + 1
         /\ writers'[k].wd_calls = writers[k].wd_calls
         /\ writers'[k].fin_calls = writers[k].fin_calls
         /\ \E c \in Callers : call[c].pc = "open" /\ call[c].kind = k
    /\ writers[k].wd_calls > 0 => writers'[k].opens = writers[k].opens

\* C19: opening a handle at most once depends on the caller serializing
\* same-kind calls: two concurrent calls of a kind can both find the
\* handle unopened and both open a session, and the replaced session is
\* never finalized.
C19_RaceOpensTwice ==
  [](C19_OpenOnceNeedsSerialized) /\ [][C19_ReplaceStep]_vars

\* C19 witness: two unserialized calls of one kind both opened a session,
\* both wrote, and the completed destruction finalized one session only.
C19_Witness ==
  \E k \in Kinds :
    /\ ~serialized
    /\ writers[k].opens = 2
    /\ Len(writers[k].sent) = 2
    /\ mainPc = "done"
    /\ writers[k].wd_calls = 1 /\ writers[k].fin_calls = 1

\* The place of each kind in the order range, imu, odometry, fixed-frame.
C20_Place ==
  [k \in Kinds |->
     CASE k = "rangefinder" -> 1
       [] k = "imu" -> 2
       [] k = "odometry" -> 3
       [] k = "fixed_frame" -> 4]

\* C20: the destructor finalizes in the order range, imu, odometry,
\* fixed-frame and stops at the first failure: when the finalize of a
\* handle failed the process is fatal, every handle later in the order has
\* got neither end-of-writes signal nor completion wait, and every open
\* handle before one that was finalized has been finalized successfully.
C20_StopsAtFirstFailure ==
  \A j \in Kinds, k \in Kinds :
    C20_Place[j] < C20_Place[k] =>
      /\ FinalizeFailed(j) =>
           /\ mainPc = "fatal"
           /\ writers[k].wd_calls = 0 /\ writers[k].fin_calls = 0
      /\ writers[k].wd_calls > 0 /\ writers[j].client_writer = "open"
           => FinalizeSucceeded(j)

\* C20 witness: two handles are open, the finalize of the earlier one was
\* fatal and the later one was left untouched.
C20_Witness ==
  /\ mainPc = "fatal"
  /\ \E j \in Kinds, k \in Kinds :
       /\ C20_Place[j] < C20_Place[k]
       /\ writers[j].client_writer = "open"
       /\ writers[k].client_writer = "open"
       /\ FinalizeFailed(j)
       /\ writers[k].wd_calls = 0

====
